---- MODULE Spec2Model ----
(***************************************************************************)
(* Model of preliminary_analysis.py: conservation scoring of multiple      *)
(* sequence alignments, key-residue and highly-conserved extraction, and   *)
(* the run over the version folders v1, v2, v3.                            *)
(*                                                                         *)
(* A score is kept as the exact fraction count/n, written                  *)
(* [num |-> count, den |-> n]; the program's float is the correctly        *)
(* rounded value of that fraction, so comparisons between two scores of    *)
(* the sizes modelled here, and with the literal 0.95, agree with the      *)
(* comparisons of the fractions (19/20 rounds to the same double as the    *)
(* literal 0.95).                                                          *)
(***************************************************************************)
EXTENDS Integers, Sequences, FiniteSets, TLC

VARIABLES
    \* ---- the file system and the run (main, process_folder) ----
    present,              \* version folders that exist
    files,                \* files[v]: basenames of the *.afa files of folder v
    pc,                   \* position of the run
    vi,                   \* index of the current version in VersionList
    msa_queue,            \* files of the current folder still to be analysed
    all_results,          \* process_folder's list
    all_version_results,  \* main's accumulator
    attempted,            \* files for which "Analyzing ..." was printed, in order
    failed,               \* files for which "Error analyzing ..." was printed
    image,                \* image[<<v, f>>]: state of results/v/f_conservation.png
    report,               \* report[<<v, f>>]: state of results/v/f_conserved.txt
    combined,             \* state of results/combined_analysis.tsv
    err,                  \* site of the last exception raised
    called,               \* versions process_folder was called for
    warned,               \* versions reported "folder not found"
    \* ---- the pure functions ----
    alignment,            \* the input alignment
    positions,            \* the input position list
    conservation_scores,  \* a profile
    key_residues,         \* rows returned by analyze_key_residues
    hc_runs,              \* results of successive highly-conserved extractions
    stage                 \* "input" before the function is applied, "output" after

runvars == <<present, files, pc, vi, msa_queue, all_results, all_version_results,
             attempted, failed, image, report, combined, err, called, warned>>
purevars == <<alignment, positions, conservation_scores, key_residues, hc_runs, stage>>
vars == <<present, files, pc, vi, msa_queue, all_results, all_version_results,
          attempted, failed, image, report, combined, err, called, warned,
          alignment, positions, conservation_scores, key_residues, hc_runs, stage>>

----------------------------------------------------------------------------
(* Bounds *)

MaxFiles == 3        \* alignment files in one run, over all folders
MaxNames == 2        \* alignment files in one folder
MaxSeqs == 3         \* sequences of an alignment (scorer)
MaxWidth == 1        \* columns of an alignment (scorer)
KeySeqs == 2         \* sequences of an alignment (key residues)
KeyWidth == 2        \* columns of an alignment (key residues)
MaxPositions == 2    \* length of a position list
MaxPos == 3          \* largest position in a drawn position list
MaxN == 20           \* sequences behind a drawn profile
MaxProfileLen == 2   \* length of a drawn profile

\* Symbols drawn for the bounded alignments: two amino acids, one uppercase
\* letter outside the canonical alphabet, and the gap character.
Alphabet == {"A", "C", "X", "-"}

\* Symbols drawn for the alignments given to the key-residue extraction.
KeyAlphabet == {"A", "-"}

----------------------------------------------------------------------------
(* Scorer *)

valid_amino_acids ==
    {"A", "C", "D", "E", "F", "G", "H", "I", "K", "L",
     "M", "N", "P", "Q", "R", "S", "T", "V", "W", "Y"}

Normalize_identity(x) == x

\* lambda x: x if x in valid_amino_acids else "-"
Normalize(x) == IF x \in valid_amino_acids THEN x ELSE "-"

Range(s) == {s[i] : i \in 1..Len(s)}

RECURSIVE Count(_, _)
Count(col, s) ==
    IF col = <<>> THEN 0
    ELSE (IF Head(col) = s THEN 1 ELSE 0) + Count(Tail(col), s)

value_counts_dropgap(col) ==
    LET kept == SelectSeq(col, LAMBDA x : x # "-")
    IN  [s \in Range(kept) |-> [num |-> Count(kept, s), den |-> Len(kept)]]

\* col.value_counts(normalize=True): the frequency of each symbol of the column
value_counts(col) ==
    [s \in Range(col) |-> [num |-> Count(col, s), den |-> Len(col)]]

\* a <= b for two fractions
ScoreLE(a, b) == a.num * b.den <= b.num * a.den

\* .max() of a frequency table (0/1 stands for NaN, the max of an empty table)
MaxFreq(vc) ==
    IF DOMAIN vc = {} THEN [num |-> 0, den |-> 1]
    ELSE LET vals == {vc[s] : s \in DOMAIN vc}
         IN  CHOOSE x \in vals : \A y \in vals : ScoreLE(y, x)

\* the DataFrame after applymap: one row per sequence, symbols normalised
DataFrame(aln) ==
    [i \in 1..Len(aln) |-> [j \in 1..Len(aln[i]) |-> Normalize(aln[i][j])]]

\* column j of the frame
Column(df, j) == [i \in 1..Len(df) |-> df[i][j]]

calculate_conservation_scores(aln) ==
    LET df == DataFrame(aln)
        w  == Len(df[1])
    IN  [j \in 1..w |-> MaxFreq(value_counts(Column(df, j)))]

----------------------------------------------------------------------------
(* Analyzer *)

\* score > 0.95
Above095(score) == score.num * 100 > 95 * score.den

Selected_inclusive(score) == score.num * 100 >= 95 * score.den

\* the filter of the comprehension of analyze_msa_file
Selected(score) == Above095(score)

RECURSIVE HighlyConservedFrom(_, _)
HighlyConservedFrom(scores, i) ==
    IF i >= Len(scores) THEN <<>>
    ELSE (IF Selected(scores[i + 1]) THEN << <<i + 1, scores[i + 1]>> >> ELSE <<>>)
         \o HighlyConservedFrom(scores, i + 1)

\* [(i+1, score) for i, score in enumerate(conservation_scores) if score > 0.95]
highly_conserved(scores) == HighlyConservedFrom(scores, 0)

InBounds_strict(pos, scores) == pos < Len(scores)

\* pos <= len(conservation_scores)
InBounds(pos, scores) == pos <= Len(scores)

RECURSIVE KeyRows(_, _)
KeyRows(scores, ps) ==
    IF ps = <<>> THEN <<>>
    ELSE (IF InBounds(Head(ps), scores)
          THEN << [Position |-> Head(ps), Conservation_Score |-> scores[Head(ps)]] >>
          ELSE <<>>)
         \o KeyRows(scores, Tail(ps))

analyze_key_residues(aln, ps) ==
    KeyRows(calculate_conservation_scores(aln), ps)

residues_to_highlight == <<285, 417, 447>>

----------------------------------------------------------------------------
(* The run: main, process_folder, analyze_msa_file *)

\* for version in ['v1', 'v2', 'v3']
VersionList == <<"v1", "v2", "v3">>

Versions == Range(VersionList)

\* Basenames of alignment files; the number stands for the name, and the
\* order of the numbers for the lexicographic order of the names. A folder
\* holds the first k names, for some k.
FileNames == 1..MaxNames

\* The steps of the try block of process_folder, in program order.
FileSteps ==
    << "read",          \* AlignIO.read in analyze_msa_file
       "score",         \* calculate_conservation_scores
       "plot",          \* plt.figure .. plt.grid
       "makedirs",      \* os.makedirs(output_dir) in analyze_msa_file
       "savefig",       \* plt.savefig
       "read2",         \* AlignIO.read in process_folder
       "key_residues",  \* analyze_key_residues
       "open",          \* open(output_file, 'w')
       "write" >>       \* the f.write calls

StepIndex(s) == CHOOSE i \in 1..Len(FileSteps) : FileSteps[i] = s

\* step s ran to its end when the try block failed at step fail ("none": no failure)
Completed(s, fail) == fail = "none" \/ StepIndex(s) < StepIndex(fail)

\* The alignment stored in a file. The run is explored over every pattern
\* of failures; the contents of the files are fixed, and the functions
\* applied to them are explored over all bounded inputs on their own.
FileContent(f) ==
    IF f % 2 = 1
    THEN << <<"A", "C", "D", "E", "F">>, <<"A", "C", "D", "E", "F">>,
            <<"A", "C", "D", "E", "F">> >>
    ELSE << <<"A", "C">>, <<"A", "X">> >>

path_exists_always(v) == TRUE

\* os.path.exists(version)
path_exists(v) == v \in present

\* glob.glob(os.path.join(folder_path, "*.afa")): the files, in no order
glob(v) == IF v \in present THEN files[v] ELSE {}

Min(S) == CHOOSE x \in S : \A y \in S : x <= y

RECURSIVE sorted(_)
sorted(S) == IF S = {} THEN <<>> ELSE <<Min(S)>> \o sorted(S \ {Min(S)})

\* what analyze_msa_file returns
analyze_msa_file(f) ==
    LET scores == calculate_conservation_scores(FileContent(f))
    IN  <<highly_conserved(scores), scores>>

\* the dictionary appended to all_results
ResultRow(v, f) ==
    [Version |-> v,
     MSA_file |-> f,
     Key_Residues |-> analyze_key_residues(FileContent(f), residues_to_highlight),
     Highly_Conserved |-> analyze_msa_file(f)[1]]

AfterFailure_raise == "crashed"

\* where the run goes on after "except Exception as e: print(...)"
AfterFailure == "files"

UncaughtFailure_swallowed == "files"

\* where the run goes when os.makedirs raises in main or process_folder:
\* no handler encloses either call
UncaughtFailure == "crashed"

PureIdle ==
    /\ alignment = <<>>
    /\ positions = <<>>
    /\ conservation_scores = <<>>
    /\ key_residues = <<>>
    /\ hc_runs = <<>>
    /\ stage = "idle"

TotalFiles(fs) == Cardinality({vf \in Versions \X FileNames : vf[2] \in fs[vf[1]]})

Init ==
    /\ present \in SUBSET Versions
    /\ files \in [Versions -> {1..k : k \in 0..MaxNames}]
    /\ \A v \in Versions : v \notin present => files[v] = {}
    /\ TotalFiles(files) <= MaxFiles
    /\ pc = "main"
    /\ vi = 1
    /\ msa_queue = <<>>
    /\ all_results = <<>>
    /\ all_version_results = <<>>
    /\ attempted = <<>>
    /\ failed = {}
    /\ image = [vf \in Versions \X FileNames |-> "absent"]
    /\ report = [vf \in Versions \X FileNames |-> "absent"]
    /\ combined = "absent"
    /\ err = "none"
    /\ called = {}
    /\ warned = {}
    /\ PureIdle

\* main: os.makedirs("results", exist_ok=True)
main_makedirs ==
    /\ pc = "main"
    /\ \E ok \in BOOLEAN :
          IF ok THEN /\ pc' = "versions"
                     /\ err' = err
                ELSE /\ pc' = UncaughtFailure
                     /\ err' = "main_makedirs"
    /\ UNCHANGED <<present, files, vi, msa_queue, all_results, all_version_results,
                   attempted, failed, image, report, combined, called, warned>>
    /\ UNCHANGED purevars

\* main: the version exists, process_folder is entered
main_version_present ==
    /\ pc = "versions"
    /\ vi <= Len(VersionList)
    /\ path_exists(VersionList[vi])
    /\ called' = called \cup {VersionList[vi]}
    /\ pc' = "process_folder"
    /\ UNCHANGED <<present, files, vi, msa_queue, all_results, all_version_results,
                   attempted, failed, image, report, combined, err, warned>>
    /\ UNCHANGED purevars

\* main: the version is missing, a warning is printed
main_version_missing ==
    /\ pc = "versions"
    /\ vi <= Len(VersionList)
    /\ ~path_exists(VersionList[vi])
    /\ warned' = warned \cup {VersionList[vi]}
    /\ vi' = vi + 1
    /\ UNCHANGED <<present, files, pc, msa_queue, all_results, all_version_results,
                   attempted, failed, image, report, combined, err, called>>
    /\ UNCHANGED purevars

\* process_folder: output directory, file discovery, all_results = []
process_folder_begin ==
    /\ pc = "process_folder"
    /\ \E ok \in BOOLEAN :
          IF ok THEN /\ msa_queue' = sorted(glob(VersionList[vi]))
                     /\ all_results' = <<>>
                     /\ pc' = "files"
                     /\ err' = err
                ELSE /\ pc' = UncaughtFailure
                     /\ err' = "folder_makedirs"
                     /\ UNCHANGED <<msa_queue, all_results>>
    /\ UNCHANGED <<present, files, vi, all_version_results,
                   attempted, failed, image, report, combined, called, warned>>
    /\ UNCHANGED purevars

\* process_folder: one iteration of the loop over sorted(msa_files)
process_file ==
    /\ pc = "files"
    /\ msa_queue # <<>>
    /\ LET v  == VersionList[vi]
           f  == Head(msa_queue)
           vf == <<v, f>>
       IN  \E fail \in Range(FileSteps) \cup {"none"} :
           /\ msa_queue' = Tail(msa_queue)
           /\ attempted' = Append(attempted, vf)
           /\ IF Completed("savefig", fail)
              THEN image' = [image EXCEPT ![vf] = "complete"]
              ELSE IF fail = "savefig"
                   THEN \E st \in {"absent", "partial"} :
                           image' = [image EXCEPT ![vf] = st]
                   ELSE image' = image
           /\ all_results' = IF Completed("key_residues", fail)
                             THEN Append(all_results, ResultRow(v, f))
                             ELSE all_results
           /\ report' = IF fail = "none" THEN [report EXCEPT ![vf] = "complete"]
                        ELSE IF fail = "write" THEN [report EXCEPT ![vf] = "partial"]
                        ELSE report
           /\ IF fail = "none"
              THEN /\ pc' = "files"
                   /\ UNCHANGED <<failed, err>>
              ELSE /\ pc' = AfterFailure
                   /\ failed' = failed \cup {vf}
                   /\ err' = fail
    /\ UNCHANGED <<present, files, vi, all_version_results, combined, called, warned>>
    /\ UNCHANGED purevars

\* process_folder returns; main extends its accumulator
process_folder_return ==
    /\ pc = "files"
    /\ msa_queue = <<>>
    /\ all_version_results' = all_version_results \o all_results
    /\ vi' = vi + 1
    /\ pc' = "versions"
    /\ UNCHANGED <<present, files, msa_queue, all_results,
                   attempted, failed, image, report, combined, err, called, warned>>
    /\ UNCHANGED purevars

\* main: after the loop, the combined table
main_combine ==
    /\ pc = "versions"
    /\ vi > Len(VersionList)
    /\ IF all_version_results # <<>>
       THEN \E ok \in BOOLEAN :
               IF ok THEN /\ combined' = "complete"
                          /\ pc' = "done"
                          /\ err' = err
                     ELSE /\ combined' \in {"absent", "partial"}
                          /\ pc' = "crashed"
                          /\ err' = "to_csv"
       ELSE /\ pc' = "done"
            /\ UNCHANGED <<combined, err>>
    /\ UNCHANGED <<present, files, vi, msa_queue, all_results, all_version_results,
                   attempted, failed, image, report, called, warned>>
    /\ UNCHANGED purevars

Next ==
    \/ main_makedirs
    \/ main_version_present
    \/ main_version_missing
    \/ process_folder_begin
    \/ process_file
    \/ process_folder_return
    \/ main_combine

Spec == Init /\ [][Next]_vars

----------------------------------------------------------------------------
(* Properties of the run *)

\* rows accumulated so far: main's list, and process_folder's while it runs
Accumulated ==
    IF pc = "files" THEN all_version_results \o all_results ELSE all_version_results

RowFile(row) == <<row.Version, row.MSA_file>>

VersionIndex(v) == CHOOSE k \in 1..Len(VersionList) : VersionList[k] = v

\* vf1 is processed before vf2: earlier version, or same version and smaller name
Before(vf1, vf2) ==
    \/ VersionIndex(vf1[1]) < VersionIndex(vf2[1])
    \/ vf1[1] = vf2[1] /\ vf1[2] < vf2[2]

AllFiles == {vf \in Versions \X FileNames : vf[2] \in files[vf[1]]}

DirectoryErrors == {"main_makedirs", "folder_makedirs"}

\* C1: a failure at any step of one file's processing does not end the run:
\* the run is never terminated by a per-file failure, it stops only at the
\* end of main or at an uncaught error, every file of the current folder is
\* attempted or still queued, every file of a folder the loop has left was
\* attempted, the files are attempted in version order and sorted order, and
\* the step after the loop is reached with every file attempted.
C1_FailureIsolation ==
    /\ pc = "crashed" => err \notin Range(FileSteps)
    /\ pc \notin {"done", "crashed"} => ENABLED Next
    /\ pc = "files" =>
          \A f \in files[VersionList[vi]] :
              \/ <<VersionList[vi], f>> \in Range(attempted)
              \/ f \in Range(msa_queue)
    /\ \A vf \in AllFiles :
          (pc \in {"versions", "done"} /\ VersionIndex(vf[1]) < vi)
              => vf \in Range(attempted)
    /\ \A i, j \in 1..Len(attempted) : i < j => Before(attempted[i], attempted[j])
    /\ (pc = "done" \/ err = "to_csv") => Range(attempted) = AllFiles

\* a run that ended, in which a file failed, a later file of the same folder
\* and a file of a later folder were attempted after it
C1_Witness ==
    /\ pc = "done"
    /\ \E i, j, k \in 1..Len(attempted) :
          /\ i < j /\ i < k
          /\ attempted[i] \in failed
          /\ attempted[j][1] = attempted[i][1]
          /\ attempted[k][1] # attempted[i][1]

\* C2: every file whose processing has ended has both outputs, the report
\* complete, or neither.
C2_OutputAtomicity ==
    \A vf \in Range(attempted) :
        \/ image[vf] = "complete" /\ report[vf] = "complete"
        \/ image[vf] = "absent" /\ report[vf] = "absent"

\* C3: when no file completed processing without a failure, the combined
\* table is never written.
C3_NoCombinedWithoutProcessedFile ==
    Range(attempted) \subseteq failed => combined = "absent"

\* C4: an absent version folder raises no error, is warned about and
\* skipped, process_folder is never called for it, and no accumulated row
\* carries its label.
C4_MissingFolderSkipped ==
    /\ called \subseteq present
    /\ \A k \in 1..Len(VersionList) :
          (VersionList[k] \notin present /\ (vi > k \/ pc = "done"))
              => VersionList[k] \in warned
    /\ warned \cap present = {}
    /\ \A i \in 1..Len(Accumulated) : Accumulated[i].Version \in present
    /\ \A i \in 1..Len(all_results) : all_results[i].Version \in present
    /\ pc = "crashed" =>
          /\ err \in DirectoryErrors \cup {"to_csv"}
          /\ err = "folder_makedirs" => VersionList[vi] \in present

\* a finished run with an absent folder, warned about, and a row of a
\* present folder in the table
C4_Witness ==
    /\ pc = "done"
    /\ present # Versions
    /\ warned = Versions \ present
    /\ all_version_results # <<>>
    /\ combined = "complete"

\* C9 as stated: at each of the three creation sites a failure ends the run
\* and nothing is processed after it.
C9_AllSitesFatal ==
    err \in DirectoryErrors \cup {"makedirs"} => (pc = "crashed" /\ ~ENABLED Next)

\* C9 amended: a failure of the directory creation in main or in
\* process_folder ends the run and nothing is processed after it; a failure
\* of the creation in analyze_msa_file is caught as a failure of that file
\* and the run goes on.
C9_DirectoryCreationFailure ==
    /\ err \in DirectoryErrors => (pc = "crashed" /\ ~ENABLED Next)
    /\ err = "makedirs" =>
          /\ pc # "crashed"
          /\ \E i \in 1..Len(attempted) : attempted[i] \in failed
          /\ pc = "done" \/ ENABLED Next

\* the creation of results/<version> failed after a file of an earlier
\* folder was processed, and files of this folder were never attempted
C9_Witness ==
    /\ pc = "crashed"
    /\ err = "folder_makedirs"
    /\ attempted # <<>>
    /\ Range(attempted) # AllFiles
    /\ ~ENABLED Next

\* C10: the accumulated list holds at most one row per attempted file, a row
\* only for a file whose processing did not fail and whose report was
\* written, and at the end one row for every such file.
C10_AccumulatorInvariant ==
    /\ \A i, j \in 1..Len(Accumulated) :
          RowFile(Accumulated[i]) = RowFile(Accumulated[j]) => i = j
    /\ \A i \in 1..Len(Accumulated) :
          /\ RowFile(Accumulated[i]) \in Range(attempted) \ failed
          /\ report[RowFile(Accumulated[i])] = "complete"
    /\ pc = "done" =>
          {RowFile(Accumulated[i]) : i \in 1..Len(Accumulated)}
              = Range(attempted) \ failed

----------------------------------------------------------------------------
(* The functions on their own: bounded inputs, one application *)

RunIdle ==
    /\ present = {}
    /\ files = [v \in Versions |-> {}]
    /\ pc = "idle"
    /\ vi = 1
    /\ msa_queue = <<>>
    /\ all_results = <<>>
    /\ all_version_results = <<>>
    /\ attempted = <<>>
    /\ failed = {}
    /\ image = [vf \in Versions \X FileNames |-> "absent"]
    /\ report = [vf \in Versions \X FileNames |-> "absent"]
    /\ combined = "absent"
    /\ err = "none"
    /\ called = {}
    /\ warned = {}

\* alignments of 1..n equal-length sequences of width 1..w over the symbols syms
Alignments(n, w, syms) ==
    UNION {[1..k -> [1..l -> syms]] : <<k, l>> \in (1..n) \X (1..w)}

\* "ACDEF", "ACDEF", "ACDEF"
Example5 ==
    << <<"A", "C", "D", "E", "F">>, <<"A", "C", "D", "E", "F">>,
       <<"A", "C", "D", "E", "F">> >>

\* two sequences of width 400 that agree at the even positions
Example400 ==
    << [j \in 1..400 |-> "A"], [j \in 1..400 |-> IF j % 2 = 0 THEN "A" ELSE "C"] >>

Width(aln) == Len(aln[1])

InitScore ==
    /\ RunIdle
    /\ alignment \in Alignments(MaxSeqs, MaxWidth, Alphabet) \cup {Example5}
    /\ positions = <<>>
    /\ conservation_scores = <<>>
    /\ key_residues = <<>>
    /\ hc_runs = <<>>
    /\ stage = "input"

\* conservation_scores = calculate_conservation_scores(alignment)
Score ==
    /\ stage = "input"
    /\ conservation_scores' = calculate_conservation_scores(alignment)
    /\ stage' = "output"
    /\ UNCHANGED <<alignment, positions, key_residues, hc_runs>>
    /\ UNCHANGED runvars

NextScore == Score

SpecScore == InitScore /\ [][NextScore]_vars

\* position lists of length 0..len over 1..top
PositionLists(len, top) == UNION {[1..k -> 1..top] : k \in 0..len}

InitKey ==
    /\ RunIdle
    /\ alignment \in Alignments(KeySeqs, KeyWidth, KeyAlphabet) \cup {Example5, Example400}
    /\ positions \in PositionLists(MaxPositions, MaxPos) \cup {residues_to_highlight}
    /\ conservation_scores = <<>>
    /\ key_residues = <<>>
    /\ hc_runs = <<>>
    /\ stage = "input"

\* key_residues = analyze_key_residues(alignment, positions)
KeyResidues ==
    /\ stage = "input"
    /\ key_residues' = analyze_key_residues(alignment, positions)
    /\ stage' = "output"
    /\ UNCHANGED <<alignment, positions, conservation_scores, hc_runs>>
    /\ UNCHANGED runvars

NextKey == KeyResidues

SpecKey == InitKey /\ [][NextKey]_vars

\* profiles of length 0..len of an alignment of 1..n sequences: every score
\* is count/k for a count in 1..k
Profiles(n, len) ==
    UNION {[1..l -> {[num |-> c, den |-> k] : c \in 1..k}] :
              <<k, l>> \in (1..n) \X (0..len)}

InitHC ==
    /\ RunIdle
    /\ alignment = <<>>
    /\ positions = <<>>
    /\ conservation_scores \in Profiles(MaxN, MaxProfileLen)
    /\ key_residues = <<>>
    /\ hc_runs = <<>>
    /\ stage = "input"

\* one more extraction from the same profile
ExtractHighlyConserved ==
    /\ stage \in {"input", "output"}
    /\ Len(hc_runs) < 2
    /\ hc_runs' = Append(hc_runs, highly_conserved(conservation_scores))
    /\ stage' = "output"
    /\ UNCHANGED <<alignment, positions, conservation_scores, key_residues>>
    /\ UNCHANGED runvars

NextHC == ExtractHighlyConserved

SpecHC == InitHC /\ [][NextHC]_vars

----------------------------------------------------------------------------
(* Properties of the functions *)

NSeqs == Len(alignment)

\* the symbols of column j as they stand in the input
RawColumn(j) == {alignment[i][j] : i \in 1..NSeqs}

PairwiseDistinct(j) == Cardinality(RawColumn(j)) = NSeqs

\* the symbol of sequence i at column j with every symbol outside the
\* canonical alphabet read as the gap marker
Sym(i, j) ==
    IF alignment[i][j] \in valid_amino_acids THEN alignment[i][j] ELSE "-"

\* the largest count of one symbol in column j, the gap marker included
LargestCount(j) ==
    LET counts == {Cardinality({i \in 1..NSeqs : Sym(i, j) = s}) :
                      s \in valid_amino_acids \cup {"-"}}
    IN  CHOOSE c \in counts : \A d \in counts : d <= c

\* score = 1/n
IsOneOverN(score) == score.num * NSeqs = score.den

\* C5 as stated: a column of n pairwise distinct symbols scores exactly 1/n.
C5_DistinctColumn ==
    stage = "output" =>
        \A j \in 1..Width(alignment) :
            PairwiseDistinct(j) => IsOneOverN(conservation_scores[j])

\* C5 amended: a column of n pairwise distinct symbols, at most one of them
\* outside the canonical alphabet ACDEFGHIKLMNPQRSTVWY, scores exactly 1/n.
C5_DistinctAfterNormalisation ==
    stage = "output" =>
        \A j \in 1..Width(alignment) :
            (/\ PairwiseDistinct(j)
             /\ Cardinality(RawColumn(j) \ valid_amino_acids) <= 1)
                => IsOneOverN(conservation_scores[j])

\* three sequences carrying A, C and the gap character in one column
C5_Witness ==
    /\ stage = "output"
    /\ NSeqs = 3
    /\ \E j \in 1..Width(alignment) :
          /\ RawColumn(j) = {"A", "C", "-"}
          /\ conservation_scores[j] = [num |-> 1, den |-> 3]

\* C6: the profile has one score per column; the score of column j is the
\* largest count of one symbol of the column, symbols outside the canonical
\* alphabet counted as the gap marker and the gap marker competing, divided
\* by n; every score lies in [1/n, 1].
C6_ScoreIsLargestFrequency ==
    stage = "output" =>
        /\ Len(conservation_scores) = Width(alignment)
        /\ \A j \in 1..Width(alignment) :
              /\ conservation_scores[j].den = NSeqs
              /\ conservation_scores[j].num = LargestCount(j)
              /\ 1 <= conservation_scores[j].num
              /\ conservation_scores[j].num <= NSeqs

\* a column won by the gap marker: X, the gap character and A
C6_Witness ==
    /\ stage = "output"
    /\ NSeqs = 3
    /\ \E j \in 1..Width(alignment) :
          /\ RawColumn(j) = {"X", "-", "A"}
          /\ conservation_scores[j] = [num |-> 2, den |-> 3]

\* C7: the table is the subsequence of the positions p <= L, in input
\* order, each with the profile's score at p; positions beyond L are left
\* out; of 285, 417, 447 only 285 appears for L = 400 and none for L = 5.
C7_KeyResiduesInBounds ==
    stage = "output" =>
        LET L == Width(alignment)
            profile == calculate_conservation_scores(alignment)
            kept == SelectSeq(positions, LAMBDA p : p <= L)
        IN  /\ Len(key_residues) = Len(kept)
            /\ \A i \in 1..Len(kept) :
                  /\ key_residues[i].Position = kept[i]
                  /\ key_residues[i].Conservation_Score = profile[kept[i]]
            /\ \A i \in 1..Len(key_residues) : key_residues[i].Position <= L
            /\ (positions = <<285, 417, 447>> /\ L = 400) =>
                  (Len(key_residues) = 1 /\ key_residues[1].Position = 285)
            /\ (positions = <<285, 417, 447>> /\ L = 5) => key_residues = <<>>

\* positions 285, 417, 447 on a profile of length 400
C7_Witness ==
    /\ stage = "output"
    /\ Width(alignment) = 400
    /\ positions = <<285, 417, 447>>
    /\ key_residues = << [Position |-> 285,
                          Conservation_Score |-> [num |-> 1, den |-> 2]] >>

\* C8: an extraction lists exactly the pairs (i, score_i) of the positions
\* whose score is strictly greater than 0.95, in ascending position order,
\* and a second extraction from the same profile gives the same list.
C8_HighlyConservedExact ==
    /\ \A r \in 1..Len(hc_runs) :
          LET hc == hc_runs[r]
          IN  /\ \A k \in 1..Len(hc) :
                    /\ hc[k][1] \in 1..Len(conservation_scores)
                    /\ hc[k][2] = conservation_scores[hc[k][1]]
                    /\ hc[k][2].num * 100 > 95 * hc[k][2].den
              /\ \A i \in 1..Len(conservation_scores) :
                    conservation_scores[i].num * 100 > 95 * conservation_scores[i].den
                        => \E k \in 1..Len(hc) : hc[k][1] = i
              /\ \A k, l \in 1..Len(hc) : k < l => hc[k][1] < hc[l][1]
    /\ Len(hc_runs) = 2 => hc_runs[1] = hc_runs[2]

\* two extractions from a profile holding a score equal to 0.95 and a score
\* above it
C8_Witness ==
    /\ Len(hc_runs) = 2
    /\ conservation_scores = << [num |-> 19, den |-> 20], [num |-> 20, den |-> 20] >>
    /\ hc_runs[2] = << <<2, [num |-> 20, den |-> 20]>> >>

====
